---- MODULE Spec2Model ----
(***************************************************************************)
(* A model of nova/rpc/impl_kombu.py: the kombu-backed RPC transport.      *)
(*                                                                         *)
(* The specifications share one set of variables:                          *)
(*   SpecPool   the connection pool and the scoped handle ConnectionContext*)
(*   SpecReuse  SpecPool with handles that are used after their scope      *)
(*   SpecConn   one Connection: consumers, reconnect, reset, consume,      *)
(*              publisher_send                                             *)
(*   SpecCancel that Connection with cancel() and every answer of kombu    *)
(*   SpecClose  that Connection with close()                               *)
(*   LivePub    publisher_send on that Connection, with fairness           *)
(*   Spec       the RPC verbs, the dispatcher ProxyCallback, msg_reply and *)
(*              the MulticallWaiter, over a broker that raises no error    *)
(*   SpecStop   Spec with clients that call done() or give up iterating    *)
(*   SpecCast   casts only, on a green pool that fills                     *)
(*   SpecFanout fanout consumers and fanout_cast                           *)
(*   SpecShared multicalls and dispatcher on one pool the callers can drain*)
(*   SpecPack   _pack_context and _unpack_context over bounded inputs      *)
(*   SpecEndpoint one consumer or publisher of any kind, made and rebound  *)
(* A specification leaves the variables of the other layers unchanged.     *)
(*                                                                         *)
(* Python values: None is the string "None" where the code compares a      *)
(* value with None, and the empty tuple where it only tests truthiness.    *)
(***************************************************************************)
EXTENDS Integers, Sequences, FiniteSets, TLC

(* ------------------------------ bounds -------------------------------- *)

\* Scoped handles (ConnectionContext objects) created in SpecPool.
MaxHandles == 3

\* Consumers registered on the Connection of SpecConn, and tags drawn from
\* one queue_num counter.
MaxConsumers == 2

\* Channels the Connection of SpecConn opens (reset and reconnect open one).
MaxChannels == 3

\* The positive `limit` given to Connection.consume in SpecConn, next to
\* None and 0.
MaxLimit == 2

\* Events one consume() generator is made to yield in SpecConn.
MaxEvents == 3

\* FLAGS.rpc_conn_pool_size as configured for the model (the flag's default
\* is 30); smaller than MaxHandles so that the pool runs out.
PoolMaxSize == 2

\* Requests the clients of Spec issue (multicall and cast together).
MaxCalls == 1

\* The longest sequence a streaming proxy method of Spec yields.
MaxItems == 2

\* Requests the clients of SpecCast issue (casts only).
MaxCasts == 2

\* FLAGS.rpc_thread_pool_size as configured for the model (the flag's
\* default is 1024); smaller than MaxCasts so that the green pool fills.
ThreadPoolSize == 1

\* Servers that may create a fanout consumer in SpecFanout.
MaxServers == 2

\* fanout_cast calls made in SpecFanout.
MaxFanouts == 2

(* ----------------------------- variables ------------------------------ *)

VARIABLES
    free_items,     \* ConnectionPool: the idle connections, top of the stack first
    current_size,   \* ConnectionPool: connections created by the pool
    conns,          \* every Connection object, by identity
    ctx,            \* every ConnectionContext, by identity
    acquired,       \* history: the connection a handle was constructed with
    puts,           \* history: ConnectionPool.put calls made by a handle
    gen,            \* SpecConn: the generator returned by Connection.consume
    last,           \* SpecConn: the latest operation on the Connection and how it ended
    rebound,        \* SpecConn: the consumers the latest reconnect() re-declared, in order
    closed,         \* SpecConn: the channels the Connection has given up
    exited,         \* SpecConn: sys.exit(1) was called
    deliveries,     \* SpecConn history: each message given to a consumer's _callback
    pub,            \* SpecConn: the publisher_send call in progress, and what the broker accepted
    req,            \* Spec: what each client asked for (verb and the msg given)
    topicQ,         \* Spec: the broker's queue of the topic, oldest first
    replyQ,         \* Spec: the broker's direct queue of each msg_id, oldest first
    bound,          \* Spec: the direct queue of a msg_id is declared
    received,       \* Spec: messages the dispatcher's callback has been given
    worker,         \* Spec: the green thread spawned for each received message
    sent,           \* Spec history: the envelopes msg_reply published per msg_id
    waiter,         \* Spec: the MulticallWaiter of each multicall
    delivered,      \* Spec history: the envelopes given to MulticallWaiter.__call__
    yielded,        \* Spec history: the values the client's iteration was given
    fanoutQ,        \* SpecFanout: the broker's queues declared by fanout consumers, by name
    consumer,       \* SpecFanout: the FanoutQueue each server has created
    uuids,          \* SpecFanout: uuid4 values drawn so far
    invoked,        \* SpecFanout history: the msgs each server's proxy was called with
    fanned,         \* SpecFanout history: the fanout_cast calls made
    since,          \* SpecFanout history: the msgs fanout-cast on a server's topic since it bound
    packing,        \* SpecPack: a context and a msg on their way through pack and unpack
    endpoint        \* SpecEndpoint: one consumer or publisher, as constructed and as it is

poolVars == <<free_items, current_size>>
ctxVars  == <<ctx, acquired, puts>>
oneVars  == <<gen, last, rebound, closed, exited, pub, deliveries>>
rpcVars  == <<req, topicQ, replyQ, bound, received, worker, sent, waiter,
              delivered, yielded>>
fanVars  == <<fanoutQ, consumer, uuids, invoked, fanned, since>>
vars     == <<free_items, current_size, conns, ctx, acquired, puts,
              gen, last, rebound, closed, exited, pub, deliveries,
              req, topicQ, replyQ, bound, received, worker, sent, waiter,
              delivered, yielded,
              fanoutQ, consumer, uuids, invoked, fanned, since, packing, endpoint>>

Handles == 1 .. MaxHandles
\* Connection identities: the pool's connections in the order Pool.create
\* made them, then the connection of each handle that is not pooled.
ConnIds == 1 .. (PoolMaxSize + MaxHandles)
OwnConn(h) == PoolMaxSize + h

\* The requests of Spec in the order the clients issue them. The msg_id of
\* a multicall is a fresh uuid: the number of its request stands for it,
\* and 0 stands for the None of a context without msg_id.
Calls == 1 .. MaxCalls
NoMsgId == 0

\* The requests of SpecCast, and every request of either specification.
Casts == 1 .. MaxCasts
Requests == Calls \cup Casts

\* Python's None as a value that is compared (`result == None`).
None == "None"

\* None, or an empty tuple, where the code only tests truthiness
\* (`if failure:`, `if data['failure']:`).
NoFailure == <<>>

\* No publisher_send has been called; the broker has accepted no message.
NoPublish == [pc |-> "none", retried |-> FALSE, accepted |-> 0]

NoRequest == [verb |-> "none"]
NoWorker  == [pc |-> "none", ctxt |-> [msg_id |-> NoMsgId], todo |-> <<>>]

\* No MulticallWaiter yet; MulticallWaiter.__init__ sets _result = None and
\* _done = False.
NoWaiter == [pc |-> "none", _result |-> [exception |-> FALSE, value |-> None],
             _done |-> FALSE]

\* Nothing has been asked and the broker holds nothing.
InitRpc ==
    /\ req = [c \in Requests |-> NoRequest]
    /\ topicQ = <<>>
    /\ replyQ = [c \in Requests |-> <<>>]
    /\ bound = [c \in Requests |-> FALSE]
    /\ received = 0
    /\ worker = [c \in Requests |-> NoWorker]
    /\ sent = [c \in Requests |-> <<>>]
    /\ waiter = [c \in Requests |-> NoWaiter]
    /\ delivered = [c \in Requests |-> <<>>]
    /\ yielded = [c \in Requests |-> <<>>]

\* The servers of SpecFanout; a server without fanout consumer.
Servers == 1 .. MaxServers
NoConsumer == [topic |-> None, queue |-> None]

\* No fanout consumer exists, no uuid was drawn, nothing was fanout-cast.
InitFanout ==
    /\ fanoutQ = <<>>
    /\ consumer = [s \in Servers |-> NoConsumer]
    /\ uuids = 0
    /\ invoked = [s \in Servers |-> <<>>]
    /\ fanned = <<>>
    /\ since = [s \in Servers |-> <<>>]

\* Nothing is being packed.
NoPacking == [pc |-> "none"]

\* No consumer or publisher has been constructed.
NoEndpoint == [role |-> "none"]

(* ----------------------------- Connection ----------------------------- *)

\* A Connection that has not been constructed.
NoConnection ==
    [connection |-> FALSE, alive |-> FALSE, channel |-> 0,
     queues |-> <<>>, queue_num |-> 1]

\* Connection.__init__ followed by a first reconnect() that connects:
\* self.queues = [], a session, queue_num = count(1) and a channel.
\* `alive` is the broker's side of the session: the socket still works.
\* `channel` numbers the channels this Connection object has opened: a
\* channel is fresh when its number is larger than every earlier one.
Connection ==
    [connection |-> TRUE, alive |-> TRUE, channel |-> 1,
     queues |-> <<>>, queue_num |-> 1]

\* QueueBase.__init__: the consumer object of one queue, declared on `chan`.
\* `queue` is FALSE once cancel() has set self.queue = None.
QueueBase(chan, kind, name, tag) ==
    [tag |-> tag, kind |-> kind, name |-> name, channel |-> chan,
     queue |-> TRUE, consuming |-> FALSE]

\* Connection.create_queue: the tag is queue_num.next(), the consumer is
\* appended to self.queues.
create_queue(c, kind, name) ==
    [c EXCEPT !.queues = Append(@, QueueBase(c.channel, kind, name, c.queue_num)),
              !.queue_num = @ + 1]

\* A variant of reset without `self.queues = []`.
ResetKeepsQueues(c) ==
    [c EXCEPT !.channel = @ + 1]

\* Connection.reset when neither channel call raises: the channel is closed,
\* a new one opened, the consumer list emptied.
reset(c) ==
    [c EXCEPT !.channel = @ + 1, !.queues = <<>>]

\* Connection.close when release() does not raise.
close(c) ==
    [c EXCEPT !.connection = FALSE, !.alive = FALSE]

\* QueueBase.reconnect: the consumer takes the channel and declares a new
\* Queue object on it; nothing consumes from the new queue yet.
QueueReconnect(q, chan) ==
    [q EXCEPT !.channel = chan, !.queue = TRUE, !.consuming = FALSE]

\* A variant of the loop of Connection.reconnect that walks
\* self.queues[:-1]: the last consumer is not re-declared.
RECURSIVE RebindAllButLast(_, _, _, _)
RebindAllButLast(queues, chan, i, n) ==
    IF i >= Len(queues) \/ i > n
    THEN [queues |-> queues, log |-> <<>>]
    ELSE LET rest == RebindAllButLast(
                         [queues EXCEPT ![i] = QueueReconnect(@, chan)], chan, i + 1, n)
         IN  [queues |-> rest.queues, log |-> <<i>> \o rest.log]

\* `for consumer in self.queues: consumer.reconnect(self.channel)` from
\* consumer i on, where the first n declarations succeed and declaration
\* n + 1, if there is one, raises: the consumers as they are left, and the
\* positions re-declared, in the order the loop took them.
RECURSIVE RebindLoop(_, _, _, _)
RebindLoop(queues, chan, i, n) ==
    IF i > Len(queues) \/ i > n
    THEN [queues |-> queues, log |-> <<>>]
    ELSE LET rest == RebindLoop(
                         [queues EXCEPT ![i] = QueueReconnect(@, chan)], chan, i + 1, n)
         IN  [queues |-> rest.queues, log |-> <<i>> \o rest.log]

\* Connection.reconnect past ensure_connection: a new session, queue_num =
\* count(1), a channel of the new session, and the loop over self.queues,
\* of which n declarations succeed (the session is lost again when one
\* raises).
reconnect(c, n) ==
    [c EXCEPT !.connection = TRUE,
              !.alive = (n >= Len(c.queues)),
              !.queue_num = 1,
              !.channel = @ + 1,
              !.queues = RebindLoop(c.queues, c.channel + 1, 1, n).queues]

(* ------------------------------- Pool --------------------------------- *)

\* pools.Pool.get can return without blocking.
PoolCanGet == free_items # <<>> \/ current_size < PoolMaxSize

\* pools.Pool.get returns connection k: the top idle one, or, the pool being
\* empty and under max_size, one made by Pool.create.
PoolGet(k) ==
    IF free_items # <<>>
    THEN /\ k = Head(free_items)
         /\ free_items' = Tail(free_items)
         /\ UNCHANGED <<current_size, conns>>
    ELSE /\ current_size < PoolMaxSize
         /\ k = current_size + 1
         /\ current_size' = current_size + 1
         /\ conns' = [conns EXCEPT ![k] = Connection]
         /\ UNCHANGED free_items

\* pools.Pool.put with order_as_stack=True: push on top.
PoolPut(k) == free_items' = <<k>> \o free_items

(* ------------------------- ConnectionContext -------------------------- *)

NoContext == [pc |-> "unborn", connection |-> 0, pooled |-> FALSE, reuse |-> "none"]

\* A variant of __init__ with the two branches of `if pooled` exchanged.
CtxInitSwapped(h, pooled) ==
    /\ ctx[h].pc = "unborn"
    /\ IF ~pooled
       THEN /\ PoolCanGet
            /\ \E k \in ConnIds :
                    /\ PoolGet(k)
                    /\ ctx' = [ctx EXCEPT ![h] =
                          [pc |-> "held", connection |-> k, pooled |-> FALSE, reuse |-> "none"]]
                    /\ acquired' = [acquired EXCEPT ![h] = k]
       ELSE /\ conns' = [conns EXCEPT ![OwnConn(h)] = Connection]
            /\ ctx' = [ctx EXCEPT ![h] =
                  [pc |-> "held", connection |-> OwnConn(h), pooled |-> TRUE, reuse |-> "none"]]
            /\ acquired' = [acquired EXCEPT ![h] = OwnConn(h)]
            /\ UNCHANGED poolVars
    /\ UNCHANGED <<puts, oneVars>>

\* ConnectionContext.__init__: a pooled handle takes a connection from the
\* pool, and waits inside ConnectionPool.get() when there is none; a handle
\* that is not pooled constructs its own Connection.
CtxInit(h, pooled) ==
    /\ ctx[h].pc = "unborn"
    /\ IF pooled
       THEN IF PoolCanGet
            THEN \E k \in ConnIds :
                    /\ PoolGet(k)
                    /\ ctx' = [ctx EXCEPT ![h] =
                          [pc |-> "held", connection |-> k, pooled |-> TRUE, reuse |-> "none"]]
                    /\ acquired' = [acquired EXCEPT ![h] = k]
            ELSE /\ ctx' = [ctx EXCEPT ![h] =
                          [pc |-> "waiting", connection |-> 0, pooled |-> TRUE, reuse |-> "none"]]
                 /\ UNCHANGED <<acquired, poolVars, conns>>
       ELSE /\ conns' = [conns EXCEPT ![OwnConn(h)] = Connection]
            /\ ctx' = [ctx EXCEPT ![h] =
                  [pc |-> "held", connection |-> OwnConn(h), pooled |-> FALSE, reuse |-> "none"]]
            /\ acquired' = [acquired EXCEPT ![h] = OwnConn(h)]
            /\ UNCHANGED poolVars
    /\ UNCHANGED <<puts, oneVars>>

\* A handle waiting inside ConnectionPool.get() is given a connection.
CtxWake(h) ==
    /\ ctx[h].pc = "waiting"
    /\ PoolCanGet
    /\ \E k \in ConnIds :
          /\ PoolGet(k)
          /\ ctx' = [ctx EXCEPT ![h] = [@ EXCEPT !.pc = "held", !.connection = k]]
          /\ acquired' = [acquired EXCEPT ![h] = k]
    /\ UNCHANGED <<puts, oneVars>>

\* The handle forwards direct_consumer to its connection (__getattr__), as
\* multicall does once per handle.
CtxUse(h) ==
    /\ ctx[h].pc = "held"
    /\ ctx[h].connection # 0
    /\ LET k == ctx[h].connection IN
          /\ conns[k].queues = <<>>
          /\ conns' = [conns EXCEPT ![k] = create_queue(@, "direct", "T")]
    /\ UNCHANGED <<poolVars, ctxVars, oneVars>>

\* The broker session of a connection is lost (the socket dies).
ConnLost(k) ==
    /\ conns[k].connection
    /\ conns[k].alive
    /\ conns' = [conns EXCEPT ![k].alive = FALSE]
    /\ UNCHANGED <<poolVars, ctxVars, oneVars>>

\* A variant of _done that forgets `self.connection = None`.
CtxDoneKeepsConnection(h, via) ==
    /\ ctx[h].pc \in {"held", "exited", "again"}
    /\ ctx[h].connection # 0
    /\ ctx[h].pooled
    /\ conns[ctx[h].connection].alive
    /\ LET k == ctx[h].connection IN
          /\ conns' = [conns EXCEPT ![k] = reset(@)]
          /\ PoolPut(k)
          /\ puts' = [puts EXCEPT ![h] = @ + 1]
          /\ ctx' = [ctx EXCEPT ![h].pc = "again"]
    /\ UNCHANGED <<current_size, acquired, oneVars>>

\* Where a handle stands after _done was reached through `via`: __del__ is
\* the last call an object gets; "again" is a handle whose _done has run
\* more than once.
AfterDone(pc, via) ==
    IF via = "__del__" THEN "deleted"
    ELSE IF pc = "held" THEN "exited" ELSE "again"

\* ConnectionContext._done, reached from __exit__, close and __del__ alike.
\* With a connection: a pooled handle resets it and puts it back, and an
\* error raised by reset() (channel.close() on a lost session) leaves _done
\* before the put and before `self.connection = None`; a handle that is not
\* pooled closes it, swallows any error and forgets it. Without a
\* connection: nothing.
CtxDone(h, via) ==
    /\ ctx[h].pc \in {"held", "exited", "again"}
    /\ IF ctx[h].connection = 0
       THEN /\ ctx' = [ctx EXCEPT ![h].pc = AfterDone(@, via)]
            /\ UNCHANGED <<conns, free_items, puts>>
       ELSE LET k == ctx[h].connection IN
            IF ctx[h].pooled
            THEN IF conns[k].alive
                 THEN /\ conns' = [conns EXCEPT ![k] = reset(@)]
                      /\ PoolPut(k)
                      /\ puts' = [puts EXCEPT ![h] = @ + 1]
                      /\ ctx' = [ctx EXCEPT ![h] =
                            [@ EXCEPT !.pc = AfterDone(@, via), !.connection = 0]]
                 ELSE /\ ctx' = [ctx EXCEPT ![h].pc = AfterDone(@, via)]
                      /\ UNCHANGED <<conns, free_items, puts>>
            ELSE /\ conns' = [conns EXCEPT ![k] = close(@)]
                 /\ ctx' = [ctx EXCEPT ![h] =
                       [@ EXCEPT !.pc = AfterDone(@, via), !.connection = 0]]
                 /\ UNCHANGED <<free_items, puts>>
    /\ UNCHANGED <<current_size, acquired, oneVars>>

\* ConnectionContext.__getattr__(key) for a key the handle does not define
\* itself, given self.connection (0 for None): the attribute of the
\* connection, or InvalidRPCConnectionReuse.
__getattr__(connection) ==
    IF connection # 0 THEN "forwarded" ELSE "InvalidRPCConnectionReuse"

\* The handle is used for an operation of Connection after its scope was
\* left by __exit__ or close(); how the first such use ended is kept.
CtxUseAfterExit(h) ==
    /\ ctx[h].pc \in {"exited", "again"}
    /\ ctx[h].reuse = "none"
    /\ ctx' = [ctx EXCEPT ![h].reuse = __getattr__(ctx[h].connection)]
    /\ UNCHANGED <<poolVars, conns, acquired, puts, oneVars>>

\* The pooled handles that hold a connection.
CheckedOut == {h \in Handles : ctx[h].pooled /\ ctx[h].connection # 0}

\* Every layer before anything is constructed or asked.
InitLayers ==
    /\ free_items = <<>>
    /\ current_size = 0
    /\ conns = [k \in ConnIds |-> NoConnection]
    /\ ctx = [h \in Handles |-> NoContext]
    /\ acquired = [h \in Handles |-> 0]
    /\ puts = [h \in Handles |-> 0]
    /\ gen = [pc |-> "none", limit |-> 0, iteration |-> 0, events |-> 0,
              recovered |-> FALSE]
    /\ last = "none"
    /\ rebound = <<>>
    /\ closed = {}
    /\ exited = FALSE
    /\ pub = NoPublish
    /\ deliveries = <<>>
    /\ InitRpc
    /\ InitFanout

InitPool == InitLayers /\ packing = NoPacking /\ endpoint = NoEndpoint

\* In SpecPool the session of a pooled connection may be lost while a
\* handle holds it (a session lost while the connection is idle shows when
\* the next handle holds it; close() of a connection that is not pooled
\* ends the same way with the session lost or not).
\* Handles are constructed in the order of their numbers: they are
\* alike, so any other order is this one with the handles renamed.
NextPool ==
    \/ \E h \in Handles, pooled \in BOOLEAN :
          /\ \A g \in 1 .. (h - 1) : ctx[g].pc # "unborn"
          /\ CtxInit(h, pooled)
          /\ UNCHANGED <<rpcVars, fanVars, packing, endpoint>>
    \/ \E h \in Handles : CtxWake(h) /\ UNCHANGED <<rpcVars, fanVars, packing, endpoint>>
    \/ \E h \in Handles : CtxUse(h) /\ UNCHANGED <<rpcVars, fanVars, packing, endpoint>>
    \/ \E h \in Handles, via \in {"__exit__", "close", "__del__"} :
          CtxDone(h, via) /\ UNCHANGED <<rpcVars, fanVars, packing, endpoint>>
    \/ \E h \in CheckedOut : ConnLost(ctx[h].connection) /\ UNCHANGED <<rpcVars, fanVars, packing, endpoint>>

SpecPool == InitPool /\ [][NextPool]_vars

\* SpecReuse is SpecPool with handles that are used after their scope.
NextReuse ==
    \/ NextPool
    \/ \E h \in Handles : CtxUseAfterExit(h) /\ UNCHANGED <<rpcVars, fanVars, packing, endpoint>>

SpecReuse == InitPool /\ [][NextReuse]_vars

(* ---------------- the pool and the scoped handle: claims --------------- *)

Range(seq) == {seq[i] : i \in 1 .. Len(seq)}

\* C7: once _done has run for a handle (scope exit by __exit__, close or
\* __del__), a pooled handle's connection has been put back into the pool
\* and the connection of a handle that is not pooled is closed; also when
\* reset() raised.
C7_ExitReleasesConnection ==
    \A h \in Handles :
        ctx[h].pc \in {"exited", "again", "deleted"} =>
            IF ctx[h].pooled
            THEN puts[h] = 1
            ELSE ~conns[acquired[h]].connection

\* C17: every use of a handle after its scope was left raises
\* InvalidRPCConnectionReuse; none is forwarded to a Connection.
C17_UseAfterExitRaises ==
    \A h \in Handles :
        ctx[h].reuse \in {"none", "InvalidRPCConnectionReuse"}

\* C25: every connection idle in the pool has an empty consumer list and
\* its session; a connection enters the pool with a channel newer than the
\* one it had and the session it had; and a pooled handle is given a
\* connection with an empty consumer list and a session.
C25_IdleConnectionsAreReset ==
    /\ [](\A k \in Range(free_items) :
             conns[k].queues = <<>> /\ conns[k].connection)
    /\ [][\A k \in ConnIds :
             (k \notin Range(free_items) /\ k \in Range(free_items')) =>
                 /\ conns'[k].channel > conns[k].channel
                 /\ conns'[k].connection = conns[k].connection]_vars
    /\ [][\A h \in Handles :
             (ctx[h].pc # "held" /\ ctx'[h].pc = "held" /\ ctx'[h].pooled) =>
                 /\ conns'[ctx'[h].connection].queues = <<>>
                 /\ conns'[ctx'[h].connection].connection]_vars

\* C25 witness: a handle holds the connection an earlier handle registered
\* a consumer on and put back (reset leaves queue_num as it is), and finds
\* no consumer on it.
C25_Witness ==
    \E g, h \in Handles :
        /\ g # h
        /\ puts[h] = 1
        /\ acquired[g] = acquired[h]
        /\ ctx[g].pc = "held"
        /\ ctx[g].connection = acquired[h]
        /\ conns[acquired[h]].queue_num = 2
        /\ conns[acquired[h]].queues = <<>>

\* C8: idle plus checked-out pooled connections never exceed max_size; the
\* pool constructs a connection only when it has no idle one and is under
\* max_size; a get() starts waiting only when it has no idle one and is at
\* max_size.
C8_PoolWithinMaxSize ==
    /\ [](Len(free_items) + Cardinality(CheckedOut) <= PoolMaxSize)
    /\ [][current_size' > current_size =>
             (free_items = <<>> /\ current_size < PoolMaxSize)]_vars
    /\ [][\A h \in Handles :
             (ctx[h].pc = "unborn" /\ ctx'[h].pc = "waiting") =>
                 (free_items = <<>> /\ current_size >= PoolMaxSize)]_vars

\* C8 witness: the pool is at max_size with every connection checked out
\* and a further get() is waiting.
C8_Witness ==
    /\ \E h \in Handles : ctx[h].pc = "waiting"
    /\ free_items = <<>>
    /\ Cardinality(CheckedOut) = PoolMaxSize

\* C9: no pooled connection is held by two handles, none is held and idle
\* at once, none is idle twice, and the _done calls of one handle put its
\* connection back at most once.
C9_ExclusiveConnection ==
    /\ \A h1, h2 \in CheckedOut :
          ctx[h1].connection = ctx[h2].connection => h1 = h2
    /\ \A h \in CheckedOut : ctx[h].connection \notin Range(free_items)
    /\ Cardinality(Range(free_items)) = Len(free_items)
    /\ \A h \in Handles : puts[h] <= 1

\* C9 witness: _done has run more than once for a pooled handle whose
\* connection went back to the pool and is now held by another handle.
C9_Witness ==
    \E h1, h2 \in Handles :
        /\ h1 # h2
        /\ ctx[h1].pc \in {"again", "deleted"}
        /\ ctx[h1].pooled
        /\ puts[h1] = 1
        /\ ctx[h2].pc = "held"
        /\ ctx[h2].connection = acquired[h1]

(* ----------------------- one Connection: SpecConn ---------------------- *)

\* The Connection of SpecConn.
One == 1

\* The consumers the user of SpecConn registers are topic consumers: the
\* three queue classes differ in the names and options they declare, and
\* are alike in how Connection registers, re-declares and drains them.
ConsumerKinds == {"topic"}

\* The caller of the Connection is not inside a next() of the generator.
CallerRuns == ~exited /\ gen.pc \notin {"top", "drain"} /\ pub.pc # "try"

\* Connection.create_queue called by the user. The tag is drawn before the
\* queue class is constructed; when the declaration raises (the session is
\* lost) nothing is appended.
ConnCreate(kind) ==
    /\ CallerRuns
    /\ Len(conns[One].queues) < MaxConsumers
    /\ conns[One].queue_num <= MaxConsumers
    /\ IF conns[One].alive
       THEN /\ conns' = [conns EXCEPT ![One] = create_queue(@, kind, "T")]
            /\ last' = "create_queue"
       ELSE /\ conns' = [conns EXCEPT ![One].queue_num = @ + 1]
            /\ last' = "create_queue raised"
    /\ UNCHANGED <<poolVars, ctxVars, gen, rebound, closed, exited, pub, deliveries>>

\* What the broker library answers to queue.cancel(tag): nothing, or the
\* KeyError of an unknown tag, naming this consumer's tag or another one.
CancelAnswers == {"none", "KeyError own tag", "KeyError other tag"}

\* QueueBase.cancel on the consumer q, the library answering `raised`:
\* the consumer as it is left, and the error that leaves cancel. On a
\* consumer already cancelled self.queue is None and self.queue.cancel
\* raises AttributeError; a KeyError is swallowed when str(e) is the
\* consumer's own tag and raised again otherwise, before `self.queue =
\* None`.
cancel(q, raised) ==
    IF ~q.queue
    THEN [consumer |-> q, error |-> "AttributeError"]
    ELSE IF raised = "KeyError other tag"
    THEN [consumer |-> q, error |-> "KeyError"]
    ELSE [consumer |-> [q EXCEPT !.queue = FALSE, !.consuming = FALSE],
          error |-> "none"]

\* cancel() called by the user on consumer i, which stays in self.queues.
ConnCancel(i, raised) ==
    /\ CallerRuns
    /\ i \in 1 .. Len(conns[One].queues)
    /\ LET done == cancel(conns[One].queues[i], raised) IN
          /\ conns' = [conns EXCEPT ![One].queues[i] = done.consumer]
          /\ last' = IF done.error = "none" THEN "cancel"
                     ELSE "cancel raised " \o done.error
    /\ UNCHANGED <<poolVars, ctxVars, gen, rebound, closed, exited, pub, deliveries>>

\* Connection.reset called by the user; channel.close() raises on a lost
\* session and leaves the Connection as it was.
ConnReset ==
    /\ CallerRuns
    /\ conns[One].channel < MaxChannels
    /\ IF conns[One].alive
       THEN /\ conns' = [conns EXCEPT ![One] = reset(@)]
            /\ closed' = closed \cup {conns[One].channel}
            /\ last' = "reset"
       ELSE /\ last' = "reset raised"
            /\ UNCHANGED <<conns, closed>>
    /\ UNCHANGED <<poolVars, ctxVars, gen, rebound, exited, pub, deliveries>>

\* What reconnect() raises: SystemExit from sys.exit(1) when
\* ensure_connection gave up (n < 0), a connection error when a
\* declaration raised (n < len), nothing when it returns.
ReconnectRaises(n, len) ==
    IF n < 0 THEN "SystemExit"
    ELSE IF n < len THEN "connection error"
    ELSE "nothing"

\* A variant of the except clause that catches whatever is raised.
ExceptAnything(raised) == raised # "nothing"

\* `except self.connection.connection_errors`: the clause catches the
\* connection errors of the transport; SystemExit is not one of them.
ExceptConnectionErrors(raised) == raised = "connection error"

\* Connection.reconnect, whole: the old session is closed and the channel
\* given up; then either ensure_connection gives up after max_retries and
\* sys.exit(1) is called (n < 0), or the session is up and n of the
\* consumers are re-declared before reconnect returns (n = len(queues)) or
\* raises (n smaller). Whether SystemExit ends the process is the caller's.
Reconnect(n) ==
    /\ conns[One].channel < MaxChannels
    /\ n \in -1 .. Len(conns[One].queues)
    /\ (n >= 0 /\ n < Len(conns[One].queues)) => conns[One].channel + 1 < MaxChannels
    /\ closed' = closed \cup {conns[One].channel}
    /\ IF n < 0
       THEN /\ conns' = [conns EXCEPT ![One].alive = FALSE]
            /\ last' = "reconnect exit"
            /\ UNCHANGED rebound
       ELSE /\ conns' = [conns EXCEPT ![One] = reconnect(@, n)]
            /\ rebound' = RebindLoop(conns[One].queues,
                                     conns[One].channel + 1, 1, n).log
            /\ last' = IF n = Len(conns[One].queues)
                       THEN "reconnect" ELSE "reconnect raised"

\* reconnect() called by the user of the Connection.
ConnReconnect(n) ==
    /\ CallerRuns
    /\ Reconnect(n)
    /\ exited' = (n < 0)
    /\ UNCHANGED <<poolVars, ctxVars, gen, pub, deliveries>>

\* The `limit` of a consume() called without one: Python's None.
NoLimit == -1

\* `limit and iteration >= limit`: None and 0 are both false.
LimitReached(limit, iteration) ==
    limit # NoLimit /\ limit # 0 /\ iteration >= limit

\* Connection.consume(limit) is called: a generator, not yet started.
GenCall(limit) ==
    /\ CallerRuns
    /\ gen.pc = "none"
    /\ gen' = [pc |-> "created", limit |-> limit, iteration |-> 0, events |-> 0,
               recovered |-> FALSE]
    /\ UNCHANGED <<poolVars, ctxVars, conns, last, rebound, closed, exited, pub, deliveries>>

\* next() on the generator: from the start to the top of `while True`, from
\* the yield to the next turn of `for iteration in itertools.count(0)`.
GenNext ==
    /\ ~exited
    /\ gen.pc \in {"created", "yielded"}
    /\ gen.events < MaxEvents
    /\ gen' = IF gen.pc = "created"
              THEN [gen EXCEPT !.pc = "top"]
              ELSE [gen EXCEPT !.pc = "drain", !.iteration = @ + 1]
    /\ UNCHANGED <<poolVars, ctxVars, conns, last, rebound, closed, exited, pub, deliveries>>

\* The generator ends with an error that is not a connection error.
GenRaise(what) ==
    /\ gen' = [gen EXCEPT !.pc = "raised"]
    /\ last' = what
    /\ UNCHANGED <<conns, rebound, closed, exited>>

\* `except connection_errors: self.reconnect()` inside consume: the call
\* is in the handler, outside any try; `recovered` keeps that the generator
\* has caught a connection error. The loop goes round when reconnect
\* returns, the generator ends when it raises, and SystemExit ends the
\* process.
GenReconnect(n) ==
    /\ Reconnect(n)
    /\ exited' = (n < 0)
    /\ gen' = [gen EXCEPT !.pc = IF n = Len(conns[One].queues) THEN "top"
                                  ELSE IF n < 0 THEN "raised SystemExit"
                                  ELSE "raised connection error",
                          !.recovered = TRUE]

\* The position of the first consumer of the list that has been cancelled
\* (self.queue is None), 0 when there is none.
FirstCancelled(qs) ==
    IF \E i \in 1 .. Len(qs) : ~qs[i].queue
    THEN CHOOSE i \in 1 .. Len(qs) : ~qs[i].queue /\ \A k \in 1 .. (i - 1) : qs[k].queue
    ELSE 0

\* The top of the loop of consume: every consumer but the last is started
\* with nowait=True, the last with nowait=False, in the order of the list;
\* iteration starts at 0. self.queues[-1] raises IndexError on an empty
\* list; the first consume() on a lost session raises a connection error,
\* which is caught; consume() of a cancelled consumer (self.queue is None)
\* raises AttributeError, which is not, after the consumers before it have
\* been started.
GenRegister ==
    /\ ~exited
    /\ gen.pc = "top"
    /\ LET qs == conns[One].queues
           j  == FirstCancelled(qs)
           started == IF j = 0 THEN Len(qs) ELSE j - 1
       IN
       IF qs = <<>>
       THEN GenRaise("consume raised IndexError")
       ELSE IF ~conns[One].alive /\ j # 1
       THEN \E n \in -1 .. Len(qs) : GenReconnect(n)
       ELSE /\ conns' = [conns EXCEPT ![One].queues =
                      [i \in 1 .. Len(qs) |->
                          IF i <= started THEN [qs[i] EXCEPT !.consuming = TRUE]
                          ELSE qs[i]]]
            /\ gen' = [gen EXCEPT !.pc = IF j = 0 THEN "drain" ELSE "raised",
                                  !.iteration = IF j = 0 THEN 0 ELSE @]
            /\ last' = IF j = 0 THEN "consume" ELSE "consume raised AttributeError"
            /\ UNCHANGED <<rebound, closed, exited>>
    /\ UNCHANGED <<poolVars, ctxVars, pub, deliveries>>

\* A variant of _callback that acks before it calls the callback.
_callback_acks_first(outcome) ==
    [callback |-> outcome, acked |-> TRUE]

\* QueueBase.consume._callback for one message, the user callback ending
\* with `outcome`: callback(message.payload), then message.ack(), which is
\* not reached when the callback raises.
_callback(outcome) ==
    [callback |-> outcome, acked |-> outcome = "returned"]

\* One turn of the for loop: StopIteration when `limit and iteration >=
\* limit`, else drain_events(), which raises a connection error on a lost
\* session and else gives one message to the _callback of its consumer:
\* the event is yielded when the user callback returns, and the error of a
\* callback that raises leaves drain_events and the generator.
GenDrain ==
    /\ ~exited
    /\ gen.pc = "drain"
    /\ IF LimitReached(gen.limit, gen.iteration)
       THEN /\ gen' = [gen EXCEPT !.pc = "stopped"]
            /\ last' = "StopIteration"
            /\ UNCHANGED <<conns, rebound, closed, exited, deliveries>>
       ELSE IF ~conns[One].alive
       THEN /\ \E n \in -1 .. Len(conns[One].queues) : GenReconnect(n)
            /\ UNCHANGED deliveries
       ELSE \E outcome \in {"returned", "raised"} :
            /\ deliveries' = Append(deliveries, _callback(outcome))
            /\ IF outcome = "returned"
               THEN /\ gen' = [gen EXCEPT !.pc = "yielded", !.events = @ + 1]
                    /\ last' = "drain_events"
               ELSE /\ gen' = [gen EXCEPT !.pc = "raised"]
                    /\ last' = "callback raised"
            /\ UNCHANGED <<conns, rebound, closed, exited>>
    /\ UNCHANGED <<poolVars, ctxVars, pub>>

\* A variant of the except branch of publisher_send that gives up.
PublisherGivesUp == "returned"

\* Where publisher_send stands after `except connection_errors`: the inner
\* try swallows a connection error of reconnect(), and `while True` makes
\* the next attempt.
PublisherRetry == "try"

\* Connection.publisher_send is called with one message.
PubCall ==
    /\ CallerRuns
    /\ pub.pc = "none"
    /\ pub' = [pub EXCEPT !.pc = "try"]
    /\ UNCHANGED <<poolVars, ctxVars, conns, gen, last, rebound, closed, exited, deliveries>>

\* One turn of `while True` in publisher_send: the publisher is made and
\* the message sent, and the call returns; on a lost session either raises
\* a connection error, reconnect() is called inside `try ... except
\* connection_errors: pass`, and the loop goes round whether reconnect()
\* returned or raised a connection error; SystemExit is not caught.
PubTry ==
    /\ ~exited
    /\ pub.pc = "try"
    /\ IF conns[One].alive
       THEN /\ pub' = [pub EXCEPT !.pc = "returned", !.accepted = @ + 1]
            /\ last' = "publisher_send"
            /\ UNCHANGED <<conns, rebound, closed, exited>>
       ELSE /\ \E n \in -1 .. Len(conns[One].queues) :
                  /\ Reconnect(n)
                  /\ exited' = (n < 0 /\ ~ExceptConnectionErrors(
                                    ReconnectRaises(n, Len(conns[One].queues))))
            /\ pub' = [pub EXCEPT !.pc = PublisherRetry, !.retried = TRUE]
    /\ UNCHANGED <<poolVars, ctxVars, gen, deliveries>>

\* The session of the Connection is lost. Losses are transient: the session
\* is lost only while a channel remains for the reconnect that repairs it.
ConnLostOne ==
    /\ ~exited
    /\ conns[One].channel < MaxChannels
    /\ ConnLost(One)

InitConn ==
    /\ free_items = <<>>
    /\ current_size = 0
    /\ conns = [k \in ConnIds |-> IF k = One THEN Connection ELSE NoConnection]
    /\ ctx = [h \in Handles |-> NoContext]
    /\ acquired = [h \in Handles |-> 0]
    /\ puts = [h \in Handles |-> 0]
    /\ gen = [pc |-> "none", limit |-> 0, iteration |-> 0, events |-> 0,
              recovered |-> FALSE]
    /\ last = "none"
    /\ rebound = <<>>
    /\ closed = {}
    /\ exited = FALSE
    /\ pub = NoPublish
    /\ deliveries = <<>>
    /\ InitRpc
    /\ InitFanout
    /\ packing = NoPacking
    /\ endpoint = NoEndpoint

NextConn ==
    \/ \E kind \in ConsumerKinds : ConnCreate(kind) /\ UNCHANGED <<rpcVars, fanVars, packing, endpoint>>
    \/ \E i \in 1 .. MaxConsumers :
          ConnCancel(i, "none") /\ UNCHANGED <<rpcVars, fanVars, packing, endpoint>>
    \/ ConnReset /\ UNCHANGED <<rpcVars, fanVars, packing, endpoint>>
    \/ \E n \in -1 .. MaxConsumers : ConnReconnect(n) /\ UNCHANGED <<rpcVars, fanVars, packing, endpoint>>
    \/ \E limit \in {NoLimit, 0, MaxLimit} :
          GenCall(limit) /\ UNCHANGED <<rpcVars, fanVars, packing, endpoint>>
    \/ GenNext /\ UNCHANGED <<rpcVars, fanVars, packing, endpoint>>
    \/ GenRegister /\ UNCHANGED <<rpcVars, fanVars, packing, endpoint>>
    \/ GenDrain /\ UNCHANGED <<rpcVars, fanVars, packing, endpoint>>
    \/ ConnLostOne /\ UNCHANGED <<rpcVars, fanVars, packing, endpoint>>
    \/ PubCall /\ UNCHANGED <<rpcVars, fanVars, packing, endpoint>>
    \/ PubTry /\ UNCHANGED <<rpcVars, fanVars, packing, endpoint>>

SpecConn == InitConn /\ [][NextConn]_vars

(* ------------------------ one Connection: claims ----------------------- *)

\* C10: when reconnect() has returned, the channel is one the Connection
\* never had before, every consumer of self.queues is declared on it, and
\* the consumers were re-declared one by one in registration order.
C10_ReconnectRebindsAll ==
    last = "reconnect" =>
        /\ conns[One].channel \notin closed
        /\ \A i \in 1 .. Len(conns[One].queues) :
              /\ conns[One].queues[i].channel = conns[One].channel
              /\ conns[One].queues[i].queue
        /\ rebound = [i \in 1 .. Len(conns[One].queues) |-> i]

\* C10 witness: reconnect() has returned with two consumers registered,
\* inside consume() after a connection error, before the loop goes on.
C10_Witness ==
    /\ last = "reconnect"
    /\ Len(conns[One].queues) >= 2
    /\ gen.pc = "top"
    /\ gen.events >= 1

\* C11: a broker error met by the loop of consume (while it registers the
\* consumers or drains) never ends the generator: the loop reconnects and
\* goes on, and the caller of consume is not given the error.
C11_DrainErrorNotPropagated ==
    gen.pc # "raised connection error"

\* C14: of the messages given to a consumer, those whose user callback
\* returned are acked and those whose callback raised are not.
C14_AckIffCallbackReturned ==
    \A i \in 1 .. Len(deliveries) :
        deliveries[i].acked <=> deliveries[i].callback = "returned"

\* C14 witness: a message was acked after its callback returned, and the
\* callback raised for the next one, which is not acked.
C14_Witness ==
    /\ Len(deliveries) >= 2
    /\ deliveries[1].acked
    /\ deliveries[Len(deliveries)].callback = "raised"
    /\ ~deliveries[Len(deliveries)].acked
    /\ gen.pc = "raised"

\* C13: a reconnect() in which ensure_connection gave up ends the process,
\* also inside the loops of publisher_send and consume; a reconnect() that
\* returns leaves a connected session; and nothing runs after the exit.
C13_ExhaustedRetriesExit ==
    /\ [][(last' = "reconnect exit" /\ closed' # closed) => exited']_vars
    /\ [][(last' = "reconnect" /\ closed' # closed) =>
              (conns'[One].connection /\ conns'[One].alive)]_vars
    /\ [][~exited]_vars

\* C13 witness: the process has exited from a reconnect() made by the loop
\* of publisher_send.
C13_Witness ==
    /\ exited
    /\ last = "reconnect exit"
    /\ pub.pc = "try"
    /\ pub.retried

\* The Connection used for publishing only: consumers are registered, the
\* session is lost and repaired, publisher_send is called; no generator of
\* consume() is made.
\* C27: the consumer tags of the consumers in self.queues are pairwise
\* distinct, whatever create_queue, reconnect and reset did before.
C27_ConsumerTagsDistinct ==
    \A i, j \in 1 .. Len(conns[One].queues) :
        i # j => conns[One].queues[i].tag # conns[One].queues[j].tag

\* C30: a consumer that has been cancelled, while it is in self.queues, is
\* not declared again and not registered again by any later operation, and
\* consume() does not raise because of it.
C30_CancelledStaysCancelled ==
    /\ [](last # "consume raised AttributeError")
    /\ [][\A i \in 1 .. Len(conns[One].queues) :
             (~conns[One].queues[i].queue /\ i <= Len(conns'[One].queues)) =>
                 /\ ~conns'[One].queues[i].queue
                 /\ ~conns'[One].queues[i].consuming]_vars

\* C24: a consume(limit) given a limit, 0 included, that has met no
\* connection error has yielded at most limit events, and exactly limit
\* when it has ended with StopIteration.
C24_LimitEventsThenStops ==
    (gen.limit # NoLimit /\ ~gen.recovered) =>
        /\ gen.events <= gen.limit
        /\ gen.pc = "stopped" => gen.events = gen.limit

\* C31: the events one consume(limit) generator has yielded never exceed
\* its limit, connection errors and reconnects during draining included
\* (stated for a limit of 1 or more; a limit of 0 is the case of C24).
C31_EventsNeverExceedLimit ==
    (gen.limit # NoLimit /\ gen.limit # 0) => gen.events <= gen.limit

\* SpecCancel: the consumers of a Connection are cancelled, the broker
\* library answering in each of its ways.
NextCancel ==
    \/ \E kind \in ConsumerKinds : ConnCreate(kind) /\ UNCHANGED <<rpcVars, fanVars, packing, endpoint>>
    \/ \E i \in 1 .. MaxConsumers, raised \in CancelAnswers :
          ConnCancel(i, raised) /\ UNCHANGED <<rpcVars, fanVars, packing, endpoint>>
    \/ ConnReset /\ UNCHANGED <<rpcVars, fanVars, packing, endpoint>>
    \/ \E n \in 0 .. MaxConsumers : ConnReconnect(n) /\ UNCHANGED <<rpcVars, fanVars, packing, endpoint>>

SpecCancel == InitConn /\ [][NextCancel]_vars

\* C21: cancel() raises nothing but the KeyError of a tag that is not the
\* consumer's own; in particular a second cancel() of a consumer raises
\* nothing.
C21_CancelIdempotent ==
    last \in {"cancel raised AttributeError", "cancel raised KeyError"}
        => last = "cancel raised KeyError"

\* Connection.close called by the user: the session is released and
\* self.connection set to None; on a closed Connection self.connection is
\* None and self.connection.release raises AttributeError.
ConnClose ==
    /\ CallerRuns
    /\ IF conns[One].connection
       THEN /\ conns' = [conns EXCEPT ![One] = close(@)]
            /\ last' = "close"
       ELSE /\ last' = "close raised AttributeError"
            /\ UNCHANGED conns
    /\ UNCHANGED <<poolVars, ctxVars, gen, rebound, closed, exited, pub, deliveries>>

\* SpecClose: a Connection that is used, closed, and brought back by
\* reconnect(), which makes a new session whether or not there is one.
NextClose ==
    \/ \E kind \in ConsumerKinds :
          conns[One].connection /\ ConnCreate(kind) /\ UNCHANGED <<rpcVars, fanVars, packing, endpoint>>
    \/ conns[One].connection /\ ConnReset /\ UNCHANGED <<rpcVars, fanVars, packing, endpoint>>
    \/ ConnLostOne /\ UNCHANGED <<rpcVars, fanVars, packing, endpoint>>
    \/ \E n \in -1 .. MaxConsumers : ConnReconnect(n) /\ UNCHANGED <<rpcVars, fanVars, packing, endpoint>>
    \/ ConnClose /\ UNCHANGED <<rpcVars, fanVars, packing, endpoint>>

SpecClose == InitConn /\ [][NextClose]_vars

\* C22: close() raises nothing, also on a Connection that is closed.
C22_CloseIdempotent == last # "close raised AttributeError"

NextPub ==
    \/ \E kind \in ConsumerKinds : ConnCreate(kind) /\ UNCHANGED <<rpcVars, fanVars, packing, endpoint>>
    \/ \E n \in -1 .. MaxConsumers : ConnReconnect(n) /\ UNCHANGED <<rpcVars, fanVars, packing, endpoint>>
    \/ ConnReset /\ UNCHANGED <<rpcVars, fanVars, packing, endpoint>>
    \/ ConnLostOne /\ UNCHANGED <<rpcVars, fanVars, packing, endpoint>>
    \/ PubCall /\ UNCHANGED <<rpcVars, fanVars, packing, endpoint>>
    \/ PubTry /\ UNCHANGED <<rpcVars, fanVars, packing, endpoint>>

\* The thread inside publisher_send runs on: its loop takes its next turn.
LivePub == InitConn /\ [][NextPub]_vars /\ WF_vars(PubTry /\ UNCHANGED <<rpcVars, fanVars, packing, endpoint>>)

\* C12: publisher_send has returned only when the broker has accepted the
\* message, it has not been accepted while the call is still trying, and,
\* the losses being transient, a call that is trying comes to return (or
\* the process to its fatal exit).
C12_PublishRetriesUntilAccepted ==
    /\ [](pub.pc = "returned" => pub.accepted = 1)
    /\ [](pub.pc = "try" => pub.accepted = 0)
    /\ (pub.pc = "try") ~> (pub.pc = "returned" \/ exited)

\* C12 witness: publisher_send has returned after an attempt that met a
\* broker error and a reconnect().
C12_Witness ==
    /\ pub.pc = "returned"
    /\ pub.retried
    /\ pub.accepted = 1

(* --------------------------- RPC: the data ---------------------------- *)

\* Python dictionaries are functions on their keys.
DictGet(d, key, default) == IF key \in DOMAIN d THEN d[key] ELSE default
DictUpdate(d, e) == e @@ d

\* The values a proxy method returns or yields.
Values == {None, "a", "b"}

\* The sequences over S of length n or less in which no value repeats.
RECURSIVE SeqsUpTo(_, _)
SeqsUpTo(S, n) ==
    IF n = 0 THEN {<<>>}
    ELSE LET shorter == SeqsUpTo(S, n - 1)
         IN  shorter \cup
             UNION {{Append(q, x) : x \in S \ {q[i] : i \in 1 .. Len(q)}} :
                       q \in {r \in shorter : Len(r) = n - 1}}

\* The proxy object given to create_consumer: echo returns its argument,
\* stream is a generator over `items` that raises after them when `fail`,
\* boom raises.
ProxyMethods == {"echo", "stream", "boom"}

\* The msg dictionaries the clients hand to multicall and cast: one per
\* proxy method and argument, one naming a method the proxy lacks, one
\* without the `method` key and one whose method is the empty string.
Bodies ==
    {[method |-> "echo", args |-> [value |-> v]] : v \in Values}
    \cup {[method |-> "stream", args |-> [items |-> q, fail |-> f]] :
             q \in SeqsUpTo(Values, MaxItems), f \in BOOLEAN}
    \cup {[method |-> "boom", args |-> [value |-> None]],
          [method |-> "nosuch", args |-> [value |-> None]],
          [args |-> [value |-> None]],
          [method |-> "", args |-> [value |-> None]]}

\* context.to_dict() of the caller's RequestContext.
Context == [user |-> "alice"]

\* The field names of the contexts of the model.
Fields == {"user", "msg_id"}

\* The keys of the model's messages that start with '_context_'.
ContextKeys == {"_context_" \o k : k \in Fields}

\* _pack_context: every context key is stored under '_context_' + key.
_pack_context(msg, context) ==
    DictUpdate(msg, [key \in {"_context_" \o k : k \in DOMAIN context} |->
                       context[CHOOSE k \in DOMAIN context : key = "_context_" \o k]])

\* _unpack_context: the keys that start with '_context_' and '_msg_id' are
\* popped from the message; the context gets the former without the prefix
\* and msg_id (None when the message has none).
_unpack_context(msg) ==
    LET packed == {key \in DOMAIN msg : key \in ContextKeys}
        plain(key) == CHOOSE k \in Fields : key = "_context_" \o k
    IN  [ctxt |-> [k \in {plain(key) : key \in packed} \cup {"msg_id"} |->
                      IF k = "msg_id" THEN DictGet(msg, "_msg_id", NoMsgId)
                      ELSE msg["_context_" \o k]],
         msg  |-> [key \in (DOMAIN msg \ packed) \ {"_msg_id"} |-> msg[key]]]

\* sys.exc_info() of an exception of class `kind` raised with `message`.
ExcInfo(kind, message) ==
    <<[__name__ |-> kind], [class |-> kind, args |-> <<message>>], "traceback">>

\* str(exception) of an exception constructed with one argument.
Str(exception) == exception.args[1]

\* traceback.format_exception(type, value, tb): a list of lines.
FormatException(failure) ==
    <<"Traceback (most recent call last):",
      failure[1].__name__ \o ": " \o Str(failure[2])>>

\* The arguments of one ctxt.reply(reply, failure) call.
Reply(reply, failure) == [reply |-> reply, failure |-> failure]

RECURSIVE ReplyEach(_)
ReplyEach(items) ==
    IF items = <<>> THEN <<>>
    ELSE <<Reply(Head(items), NoFailure)>> \o ReplyEach(Tail(items))

\* '%s' % message_data for the messages of Bodies without a method.
Repr(msg) ==
    IF "method" \in DOMAIN msg THEN "{'args': {'value': None}, 'method': ''}"
    ELSE "{'args': {'value': None}}"

\* _('No method for message: %s') % message_data
NoMethodText(msg) == "No method for message: " \o Repr(msg)

(* ------------------------- RPC: the dispatcher ------------------------ *)

\* A variant of wrap_exception that reports nothing.
wrap_exception_silent(exc_info) == <<>>

\* exception.wrap_exception() around _process_data, given the exc_info of
\* an error that leaves the function body: the error is caught and reported
\* to the caller as a reply.
wrap_exception(exc_info) == <<Reply(None, exc_info)>>

\* ProxyCallback._process_data: the ctxt.reply calls the green thread
\* makes, in order. getattr is outside the try, so a method the proxy lacks
\* leaves the body with AttributeError. Inside the try every item of a
\* generator, or the one return value, is replied, then the final None; an
\* exception is replied as (None, sys.exc_info()) with nothing after it.
_process_data(method, args) ==
    IF method \notin ProxyMethods
    THEN wrap_exception(ExcInfo("AttributeError",
                                "'Proxy' object has no attribute '" \o method \o "'"))
    ELSE CASE method = "echo" ->
                <<Reply(args.value, NoFailure), Reply(None, NoFailure)>>
           [] method = "stream" ->
                ReplyEach(args.items) \o
                (IF args.fail
                 THEN <<Reply(None, ExcInfo("StreamError", "stream failed"))>>
                 ELSE <<Reply(None, NoFailure)>>)
           [] method = "boom" ->
                <<Reply(None, ExcInfo("BoomError", "boom"))>>

\* msg_reply: the message it sends. A failure is marshalled as the name of
\* the exception class, str(exception) and the formatted traceback.
msg_reply(reply, failure) ==
    [result  |-> reply,
     failure |-> IF failure # NoFailure
                 THEN <<failure[1].__name__, Str(failure[2]), FormatException(failure)>>
                 ELSE failure]

\* `with ConnectionContext() as conn:` around one send, from __init__ to
\* __exit__: a pooled connection is taken (made when the pool has none and
\* is under max_size), used, reset and put back on top.
WithConnectionContext ==
    /\ PoolCanGet
    /\ LET idle == free_items # <<>>
           k == IF idle THEN Head(free_items) ELSE current_size + 1
       IN  /\ conns' = [conns EXCEPT ![k] = reset(IF idle THEN @ ELSE Connection)]
           /\ free_items' = <<k>> \o (IF idle THEN Tail(free_items) ELSE <<>>)
           /\ current_size' = IF idle THEN current_size ELSE current_size + 1

\* Connection.direct_send(msg_id, msg): published to the direct exchange
\* msg_id with routing key msg_id; the broker queues it when the queue
\* msg_id is declared and drops it otherwise.
direct_send(msg_id, msg) ==
    /\ replyQ' = IF bound[msg_id]
                 THEN [replyQ EXCEPT ![msg_id] = Append(@, msg)]
                 ELSE replyQ
    /\ sent' = [sent EXCEPT ![msg_id] = Append(@, msg)]

\* RpcContext.reply: msg_reply when the context has a msg_id, else nothing.
reply(ctxt, result, failure) ==
    IF ctxt.msg_id # NoMsgId
    THEN /\ WithConnectionContext
         /\ direct_send(ctxt.msg_id, msg_reply(result, failure))
    ELSE UNCHANGED <<poolVars, conns, replyQ, sent>>

\* A variant of `not method` that takes every method for a name.
NotNever(value) == FALSE

\* `not method` for a method that is None or a string.
Not(value) == value = None \/ value = ""

\* The green threads of ProxyCallback.pool that have not ended.
GreenPoolRunning == Cardinality({r \in Requests : worker[r].pc = "running"})

\* GreenPool(FLAGS.rpc_thread_pool_size).spawn_n: the green thread is
\* started when the pool has a free slot; in a full pool the caller waits
\* until a running green thread ends.
GreenPoolFree == GreenPoolRunning < ThreadPoolSize

\* ProxyCallback.__call__ on the oldest message of the topic queue: the
\* context is unpacked; without a method one reply is made and no thread
\* spawned; else _process_data is spawned on the green pool. The consumer's
\* _callback acks the message when __call__ has returned.
ProxyCallback ==
    /\ topicQ # <<>>
    /\ LET un == _unpack_context(Head(topicQ))
           message_data == un.msg
           method == DictGet(message_data, "method", None)
           args == DictGet(message_data, "args", <<>>)
           r == received + 1
       IN  /\ topicQ' = Tail(topicQ)
           /\ received' = r
           /\ IF Not(method)
              THEN /\ reply(un.ctxt, NoMethodText(message_data), NoFailure)
                   /\ UNCHANGED worker
              ELSE /\ GreenPoolFree
                   /\ worker' = [worker EXCEPT ![r] =
                         [pc |-> IF _process_data(method, args) = <<>>
                                 THEN "finished" ELSE "running",
                          ctxt |-> un.ctxt,
                          todo |-> _process_data(method, args)]]
                   /\ UNCHANGED <<poolVars, conns, replyQ, sent>>
    /\ UNCHANGED <<ctxVars, oneVars, req, bound, waiter, delivered, yielded,
                   fanVars, packing, endpoint>>

\* The green thread r makes its next ctxt.reply call and ends after the last.
WorkerStep(r) ==
    /\ worker[r].pc = "running"
    /\ LET step == Head(worker[r].todo)
           rest == Tail(worker[r].todo)
       IN  /\ reply(worker[r].ctxt, step.reply, step.failure)
           /\ worker' = [worker EXCEPT ![r] =
                 [@ EXCEPT !.todo = rest,
                           !.pc = IF rest = <<>> THEN "finished" ELSE "running"]]
    /\ UNCHANGED <<ctxVars, oneVars, req, topicQ, bound, received, waiter,
                   delivered, yielded, fanVars, packing, endpoint>>

(* --------------------------- RPC: the client -------------------------- *)

\* RemoteError(*failure): the error the client raises.
RemoteError(failure) ==
    [exc_type |-> failure[1], value |-> failure[2], traceback |-> failure[3]]

\* MulticallWaiter.__call__: what the consume() callback stores in _result.
WaiterCall(data) ==
    IF data.failure # NoFailure
    THEN [exception |-> TRUE, value |-> RemoteError(data.failure)]
    ELSE [exception |-> FALSE, value |-> data.result]

\* A variant of the loop of __iter__ without the `result == None` test.
WaiterIterNoStop(result) ==
    IF result.exception THEN "raise" ELSE "yield"

\* One turn of the loop of MulticallWaiter.__iter__ after _iterator.next():
\* an Exception is raised, None ends the iteration, anything else is
\* yielded.
WaiterIter(result) ==
    IF result.exception THEN "raise"
    ELSE IF result.value = None THEN "stop"
    ELSE "yield"

\* call: list(rv) of the finished multicall, then None for an empty list
\* and the last element otherwise.
call(rv) == IF rv = <<>> THEN None ELSE rv[Len(rv)]

\* A variant of multicall that sends before it listens.
MulticallSendsFirst == <<"topic_send", "direct_consumer">>

\* The two broker operations of multicall in the order of its statements:
\* conn.direct_consumer(msg_id, wait_msg), then conn.topic_send(topic, msg).
MulticallOrder == <<"direct_consumer", "topic_send">>

\* One of the two: direct_consumer declares the direct exchange and queue
\* msg_id and binds them; topic_send publishes the msg, with its _msg_id and
\* the packed context, on the topic.
MulticallStep(c, msg, step) ==
    IF step = "direct_consumer"
    THEN /\ bound' = [bound EXCEPT ![c] = TRUE]
         /\ UNCHANGED topicQ
    ELSE /\ topicQ' = Append(topicQ,
                        _pack_context(DictUpdate(msg, "_msg_id" :> c), Context))
         /\ UNCHANGED bound

\* multicall up to its first broker operation: the msg gets a fresh _msg_id
\* and the packed context; a pooled ConnectionContext is made and kept by
\* the MulticallWaiter.
multicall(c, msg) ==
    /\ req[c].verb = "none"
    /\ \A b \in 1 .. (c - 1) : req[b].verb # "none" /\ waiter[b].pc # "made"
    /\ PoolCanGet
    /\ CtxInit(c, TRUE)
    /\ req' = [req EXCEPT ![c] = [verb |-> "multicall", msg |-> msg]]
    /\ waiter' = [waiter EXCEPT ![c] = [NoWaiter EXCEPT !.pc = "made"]]
    /\ MulticallStep(c, msg, MulticallOrder[1])
    /\ UNCHANGED <<replyQ, received, worker, sent, delivered, yielded,
                   fanVars, packing, endpoint>>

\* multicall from its second broker operation to `return wait_msg`.
MulticallReturn(c) ==
    /\ waiter[c].pc = "made"
    /\ waiter' = [waiter EXCEPT ![c].pc = "iterating"]
    /\ MulticallStep(c, req[c].msg, MulticallOrder[2])
    /\ UNCHANGED <<poolVars, conns, ctxVars, oneVars, req, replyQ, received,
                   worker, sent, delivered, yielded, fanVars, packing, endpoint>>

\* A variant of cast that gives the msg a _msg_id as multicall does.
CastEnvelopeWithMsgId(c, msg) ==
    _pack_context(DictUpdate(msg, "_msg_id" :> c), Context)

\* The msg of cast number c as it is sent: the packed context is added and
\* nothing else.
CastEnvelope(c, msg) == _pack_context(msg, Context)

\* cast: the msg gets the packed context and is sent to the topic inside a
\* `with ConnectionContext()`.
cast(c, msg) ==
    /\ req[c].verb = "none"
    /\ \A b \in 1 .. (c - 1) : req[b].verb # "none" /\ waiter[b].pc # "made"
    /\ WithConnectionContext
    /\ req' = [req EXCEPT ![c] = [verb |-> "cast", msg |-> msg]]
    /\ topicQ' = Append(topicQ, CastEnvelope(c, msg))
    /\ UNCHANGED <<ctxVars, oneVars, replyQ, bound, received, worker, sent,
                   waiter, delivered, yielded, fanVars, packing, endpoint>>

\* The client asks the waiter of multicall c for its next value:
\* _iterator.next() drains one message of the direct queue into __call__,
\* then __iter__ looks at _result. done() drops the waiter's reference to
\* the ConnectionContext, whose __del__ resets the connection and puts it
\* back; closing the channel deletes the auto-delete queue and what it holds.
WaiterNext(c) ==
    /\ waiter[c].pc = "iterating"
    /\ replyQ[c] # <<>>
    /\ LET data == Head(replyQ[c])
           result == WaiterCall(data)
           what == WaiterIter(result)
       IN  /\ delivered' = [delivered EXCEPT ![c] = Append(@, data)]
           /\ IF what = "yield"
              THEN /\ yielded' = [yielded EXCEPT ![c] = Append(@, result.value)]
                   /\ waiter' = [waiter EXCEPT ![c]._result = result]
                   /\ replyQ' = [replyQ EXCEPT ![c] = Tail(@)]
                   /\ UNCHANGED <<poolVars, conns, ctxVars, oneVars, bound>>
              ELSE /\ waiter' = [waiter EXCEPT ![c] =
                         [pc |-> IF what = "raise" THEN "raised" ELSE "stopped",
                          _result |-> result, _done |-> TRUE]]
                   /\ CtxDone(c, "__del__")
                   /\ bound' = [bound EXCEPT ![c] = FALSE]
                   /\ replyQ' = [replyQ EXCEPT ![c] = <<>>]
                   /\ UNCHANGED yielded
    /\ UNCHANGED <<req, topicQ, received, worker, sent, fanVars, packing, endpoint>>

\* Nothing is constructed, nothing asked.
Init == InitPool

Next ==
    \/ \E c \in Calls, msg \in Bodies : multicall(c, msg)
    \/ \E c \in Calls : MulticallReturn(c)
    \/ \E c \in Calls, msg \in Bodies : cast(c, msg)
    \/ ProxyCallback
    \/ \E r \in Calls : WorkerStep(r)
    \/ \E c \in Calls : WaiterNext(c)

Spec == Init /\ [][Next]_vars

(* ----------------------------- RPC: claims ---------------------------- *)

\* The client's iteration over the waiter of multicall c has ended.
Terminated(c) == waiter[c].pc \in {"stopped", "raised"}

\* A reply envelope that ends a stream: the terminator, or a failure.
Terminal(e) ==
    \/ e.result = None /\ e.failure = NoFailure
    \/ e.failure # NoFailure

IsPrefix(p, q) == Len(p) <= Len(q) /\ p = SubSeq(q, 1, Len(p))

\* C1: the iteration over the waiter of a multicall has ended exactly when
\* an envelope with result None and no failure, or one with a failure, has
\* been given to the waiter; the waiter is then done.
C1_TerminatesIffTerminalDelivered ==
    \A c \in Calls :
        req[c].verb = "multicall" =>
            /\ Terminated(c) <=>
                  \E i \in 1 .. Len(delivered[c]) : Terminal(delivered[c][i])
            /\ Terminated(c) <=> waiter[c]._done

\* C1 witness: an iteration that ended with the second envelope, after a
\* value was yielded.
C1_Witness ==
    \E c \in Calls :
        /\ Terminated(c)
        /\ Len(delivered[c]) = 2
        /\ Len(yielded[c]) = 1
        /\ ~Terminal(delivered[c][1])

\* The results of the envelopes that are not terminators, oldest first.
RECURSIVE NonTerminatorResults(_)
NonTerminatorResults(envelopes) ==
    IF envelopes = <<>> THEN <<>>
    ELSE (IF Terminal(Head(envelopes)) THEN <<>> ELSE <<Head(envelopes).result>>)
         \o NonTerminatorResults(Tail(envelopes))

\* C2: what the iteration of a multicall has yielded is a prefix of the
\* results of the non-terminator replies the handler has sent for the
\* msg_id, and is all of them once the handler and the iteration have ended.
C2_YieldedEqualsEmitted ==
    \A c \in Calls :
        req[c].verb = "multicall" =>
            /\ IsPrefix(yielded[c], NonTerminatorResults(sent[c]))
            /\ (Terminated(c) /\ worker[c].pc = "finished") =>
                   yielded[c] = NonTerminatorResults(sent[c])

\* What the handler of a msg that returns emits last: the value echo
\* returns, the last item of a stream, None for a stream without items.
LastEmitted(msg) ==
    IF msg.method = "echo" THEN msg.args.value
    ELSE IF msg.args.items = <<>> THEN None
    ELSE msg.args.items[Len(msg.args.items)]

\* The msg names a proxy method that returns without raising.
Returns(msg) ==
    /\ "method" \in DOMAIN msg
    /\ \/ msg.method = "echo"
       \/ msg.method = "stream" /\ ~msg.args.fail

\* C3: call returns, for a handler that returns a value, that value, and
\* for a handler that returns a sequence of N items, the N-th (None for
\* N = 0).
C3_CallReturnsLast ==
    \A c \in Calls :
        (req[c].verb = "multicall" /\ Returns(req[c].msg) /\ waiter[c].pc = "stopped")
            => call(yielded[c]) = LastEmitted(req[c].msg)

\* The msg names a proxy method that raises, and the class and message of
\* what it raises.
Raises(msg) ==
    /\ "method" \in DOMAIN msg
    /\ \/ msg.method = "boom"
       \/ msg.method = "stream" /\ msg.args.fail

RaisedKind(msg) == IF msg.method = "boom" THEN "BoomError" ELSE "StreamError"
RaisedMessage(msg) == IF msg.method = "boom" THEN "boom" ELSE "stream failed"

\* C4: when the proxy method raises, the replies sent for the msg_id hold
\* one failure, which is the last reply, has result None and carries the
\* class name, the message and the traceback lines; and the iteration of
\* the client ends only by raising a RemoteError of that class and message,
\* with the waiter done.
C4_RaiseReportedAsRemoteError ==
    \A c \in Calls :
        (req[c].verb = "multicall" /\ Raises(req[c].msg)) =>
            /\ worker[c].pc = "finished" =>
                  /\ sent[c] # <<>>
                  /\ \A i \in 1 .. Len(sent[c]) :
                        sent[c][i].failure # NoFailure <=> i = Len(sent[c])
                  /\ sent[c][Len(sent[c])].result = None
                  /\ sent[c][Len(sent[c])].failure[1] = RaisedKind(req[c].msg)
                  /\ sent[c][Len(sent[c])].failure[2] = RaisedMessage(req[c].msg)
                  /\ Len(sent[c][Len(sent[c])].failure[3]) > 0
            /\ Terminated(c) =>
                  /\ waiter[c].pc = "raised"
                  /\ waiter[c]._done
                  /\ waiter[c]._result.value.exc_type = RaisedKind(req[c].msg)
                  /\ waiter[c]._result.value.value = RaisedMessage(req[c].msg)

\* The msg has no method: the key is missing, or its value is empty.
NoMethod(msg) == "method" \notin DOMAIN msg \/ msg.method = ""

\* C5: once the dispatcher has been given a request without method, no
\* green thread exists for it and ctxt.reply has run once: for a multicall
\* one envelope was sent on its msg_id, with the text that names the
\* problem as result and no failure; a cast has no msg_id to reply on.
C5_NoMethodRepliesOnce ==
    \A c \in Calls :
        (req[c].verb # "none" /\ NoMethod(req[c].msg)) =>
            /\ worker[c] = NoWorker
            /\ sent[c] = IF req[c].verb = "multicall" /\ received >= c
                         THEN <<[result  |-> NoMethodText(req[c].msg),
                                 failure |-> NoFailure]>>
                         ELSE <<>>

\* C5 witness: the client of a multicall whose msg lacks the method key has
\* been given the text, and the dispatcher has taken the message.
C5_Witness ==
    \E c \in Calls :
        /\ req[c].verb = "multicall"
        /\ "method" \notin DOMAIN req[c].msg
        /\ received >= c
        /\ topicQ = <<>>
        /\ yielded[c] = <<NoMethodText(req[c].msg)>>

\* The msg names a method the proxy lacks.
UnknownMethod(msg) == ~NoMethod(msg) /\ msg.method \notin ProxyMethods

\* C6: when the green thread of a multicall that names a method the proxy
\* lacks has ended, a reply was sent on the msg_id, and it carries the
\* AttributeError as its failure.
C6_UnknownMethodReplied ==
    \A c \in Calls :
        (req[c].verb = "multicall" /\ UnknownMethod(req[c].msg)
            /\ worker[c].pc = "finished") =>
            /\ Len(sent[c]) = 1
            /\ sent[c][1].failure # NoFailure
            /\ sent[c][1].failure[1] = "AttributeError"

\* C6 witness: the client of such a multicall has raised the RemoteError.
C6_Witness ==
    \E c \in Calls :
        /\ req[c].verb = "multicall"
        /\ UnknownMethod(req[c].msg)
        /\ waiter[c].pc = "raised"
        /\ waiter[c]._result.value.exc_type = "AttributeError"

\* C23: from the moment the request of a multicall is on the topic until
\* the client is through with the waiter, the direct queue of its msg_id is
\* declared, and every reply sent for the msg_id has been given to the
\* waiter or waits in that queue: none was dropped for want of a queue.
C23_ReplyQueueBeforeRequest ==
    \A c \in Calls :
        (req[c].verb = "multicall" /\ waiter[c].pc \in {"made", "iterating"}) =>
            /\ received + Len(topicQ) >= c => bound[c]
            /\ sent[c] = delivered[c] \o replyQ[c]

\* C23 witness: the server has sent its replies to a multicall before the
\* client has asked the waiter for anything, and they wait in the queue.
C23_Witness ==
    \E c \in Calls :
        /\ waiter[c].pc = "iterating"
        /\ delivered[c] = <<>>
        /\ Len(sent[c]) >= 2
        /\ replyQ[c] = sent[c]

\* The dispatcher has finished with the request of multicall c: it has taken
\* the message, and the green thread, if it spawned one, has ended.
ServerFinished(c) ==
    /\ req[c].verb = "multicall"
    /\ received >= c
    /\ worker[c].pc # "running"

\* C28: nothing is published on a msg_id after a terminal reply (the
\* null/null terminator or a failure), and when the dispatcher has finished
\* with a request that carries a _msg_id, whatever its msg, the last message
\* published on the msg_id is the one terminal reply.
C28_ExactlyOneTerminalReply ==
    \A c \in Calls :
        /\ \A i \in 1 .. Len(sent[c]) - 1 : ~Terminal(sent[c][i])
        /\ ServerFinished(c) =>
              /\ sent[c] # <<>>
              /\ Terminal(sent[c][Len(sent[c])])

(* ------- SpecShared: callers that can take every pooled connection ---- *)

\* The multicalls of one process: as many as the pool has connections.
SharedCalls == 1 .. PoolMaxSize

\* The msgs of these multicalls: a handler that returns and one that raises.
SharedBodies ==
    {[method |-> "echo", args |-> [value |-> v]] : v \in {"a", "b"}}
    \cup {[method |-> "boom", args |-> [value |-> None]]}

\* The callers and the dispatcher of one process: every multicall holds its
\* pooled connection from ConnectionContext() until its replies have ended,
\* and every reply takes a connection of the same pool for its send.
NextShared ==
    \/ \E c \in SharedCalls, msg \in SharedBodies : multicall(c, msg)
    \/ \E c \in SharedCalls : MulticallReturn(c)
    \/ ProxyCallback
    \/ \E r \in SharedCalls : WorkerStep(r)
    \/ \E c \in SharedCalls : WaiterNext(c)

SpecShared == Init /\ [][NextShared]_vars

\* C29: callers and dispatcher sharing the pool do not deadlock: while a
\* multicall holds a pooled connection and waits for replies, some step of
\* the callers or of the dispatcher can be taken.
C29_NoDeadlock ==
    (\E c \in SharedCalls : waiter[c].pc \in {"made", "iterating"}) => ENABLED NextShared

(* ------------------ SpecStop: the client stops early ------------------ *)

\* The client calls done() on the waiter of multicall c before the stream
\* has ended: _done is set and _connection dropped, which was the last
\* reference to the ConnectionContext, so its __del__ runs _done().
WaiterDone(c) ==
    /\ waiter[c].pc = "iterating"
    /\ waiter' = [waiter EXCEPT ![c] = [@ EXCEPT !.pc = "done", !._done = TRUE]]
    /\ CtxDone(c, "__del__")
    /\ bound' = [bound EXCEPT ![c] = FALSE]
    /\ replyQ' = [replyQ EXCEPT ![c] = <<>>]
    /\ UNCHANGED <<req, topicQ, received, worker, sent, delivered, yielded,
                   fanVars, packing, endpoint>>

\* The client stops iterating and drops the waiter of multicall c. Closing
\* the generator of __iter__ runs no statement of the waiter, and the waiter
\* stays referenced: it is the callback of the direct consumer of the
\* connection its own ConnectionContext holds. Objects with __del__ in a
\* reference cycle are never finalized, so _done() is not run.
WaiterAbandon(c) ==
    /\ waiter[c].pc = "iterating"
    /\ waiter' = [waiter EXCEPT ![c].pc = "abandoned"]
    /\ UNCHANGED <<poolVars, conns, ctxVars, oneVars, req, topicQ, replyQ, bound,
                   received, worker, sent, delivered, yielded, fanVars, packing, endpoint>>

NextStop ==
    \/ Next
    \/ \E c \in Calls : WaiterDone(c)
    \/ \E c \in Calls : WaiterAbandon(c)

SpecStop == Init /\ [][NextStop]_vars

\* The client is through with the waiter of multicall c: the stream ended
\* with a terminator or a failure, or the client called done(), or it gave
\* up the iteration.
Ended(c) == waiter[c].pc \in {"stopped", "raised", "done", "abandoned"}

\* C16: once the client is through with the waiter of a multicall, however
\* that came about, the waiter is marked done and the connection multicall
\* took from the pool has been reset and put back, once.
C16_EndedStreamReleasesConnection ==
    \A c \in Calls :
        (req[c].verb = "multicall" /\ Ended(c)) =>
            /\ waiter[c]._done
            /\ ctx[c].connection = 0
            /\ puts[c] = 1

(* ------------------------- SpecCast: casts only ----------------------- *)

\* The msgs the clients of SpecCast cast: a method that returns, one that
\* streams, one that raises after an item, one that raises at once, one the
\* proxy lacks, and a msg without method.
CastBodies ==
    {[method |-> "echo", args |-> [value |-> "a"]],
     [method |-> "stream", args |-> [items |-> <<"a", "b">>, fail |-> FALSE]],
     [method |-> "stream", args |-> [items |-> <<"a">>, fail |-> TRUE]],
     [method |-> "boom", args |-> [value |-> None]],
     [method |-> "nosuch", args |-> [value |-> None]],
     [args |-> [value |-> None]]}

NextCast ==
    \/ \E c \in Casts, msg \in CastBodies : cast(c, msg)
    \/ ProxyCallback
    \/ \E r \in Casts : WorkerStep(r)

SpecCast == Init /\ [][NextCast]_vars

\* C15: whenever a request waits in the topic queue the dispatcher's
\* callback can take it and return, whatever the number of handlers still
\* running: it never has to wait for a handler to end.
C15_CallbackNeverWaitsForHandler ==
    topicQ # <<>> => ENABLED ProxyCallback

\* The casts issued so far.
CastsIssued == {c \in Casts : req[c].verb = "cast"}

\* C18: a cast is given to the dispatcher once; when it names a method one
\* green thread is spawned for it, with a context without msg_id; and
\* whether the method returns, streams or raises, no reply is published on
\* any direct exchange and no direct queue holds anything.
C18_CastPublishesNoReply ==
    /\ Len(topicQ) + received = Cardinality(CastsIssued)
    /\ \A c \in CastsIssued :
          /\ worker[c] # NoWorker <=> (received >= c /\ ~NoMethod(req[c].msg))
          /\ worker[c] # NoWorker =>
                /\ worker[c].ctxt.msg_id = NoMsgId
                /\ \E n \in 0 .. Len(_process_data(req[c].msg.method, req[c].msg.args)) :
                      worker[c].todo =
                          SubSeq(_process_data(req[c].msg.method, req[c].msg.args),
                                 n + 1,
                                 Len(_process_data(req[c].msg.method, req[c].msg.args)))
    /\ \A m \in Requests : sent[m] = <<>> /\ replyQ[m] = <<>>

\* C18 witness: two casts whose green threads have ended, one of a method
\* that streams and one of a method that raises.
C18_Witness ==
    \E c, d \in CastsIssued :
        /\ Returns(req[c].msg) /\ req[c].msg.method = "stream"
        /\ Raises(req[d].msg)
        /\ worker[c].pc = "finished"
        /\ worker[d].pc = "finished"
        /\ \A m \in Requests : sent[m] = <<>>

(* ------------------------ SpecFanout: fanout_cast --------------------- *)

\* The topics servers listen on and clients fanout-cast to.
Topics == {"T", "U"}

\* The msgs the clients of SpecFanout send.
FanoutBodies == {[method |-> m, args |-> [value |-> None]] : m \in {"ping", "pong"}}

\* A variant of the queue name of FanoutQueue without the uuid.
FanoutQueueNameShared(topic, unique) == topic \o "_fanout"

\* FanoutQueue.__init__: queue_name = '%s_fanout_%s' % (topic, unique).
FanoutQueueName(topic, unique) == topic \o "_fanout_" \o unique

\* FanoutQueue.__init__: exchange_name = '%s_fanout' % topic.
FanoutQueueExchange(topic) == topic \o "_fanout"

\* FanoutPublisher.__init__: the exchange name '%s_fanout' % topic.
FanoutPublisherExchange(topic) == topic \o "_fanout"

\* uuid.uuid4().hex: the n-th value drawn, different from all before.
Uuid4Hex(n) == ToString(n)

\* create_consumer(conn, topic, proxy, fanout=True) on server s: a
\* FanoutQueue with a fresh uuid is made, and QueueBase.reconnect declares
\* its queue, bound to its exchange; declaring a queue the broker has
\* already leaves that queue as it is.
create_consumer(s, topic) ==
    /\ consumer[s] = NoConsumer
    /\ LET unique == Uuid4Hex(uuids + 1)
           queue_name == FanoutQueueName(topic, unique)
       IN  /\ uuids' = uuids + 1
           /\ consumer' = [consumer EXCEPT ![s] = [topic |-> topic, queue |-> queue_name]]
           /\ fanoutQ' = IF queue_name \in DOMAIN fanoutQ THEN fanoutQ
                         ELSE fanoutQ @@ (queue_name :>
                                  [exchange |-> FanoutQueueExchange(topic),
                                   messages |-> <<>>])
    /\ UNCHANGED <<poolVars, conns, ctxVars, oneVars, rpcVars, invoked, fanned, since, packing, endpoint>>

\* fanout_cast(context, topic, msg): the msg gets the packed context and is
\* published, inside a `with ConnectionContext()`, to the exchange of
\* FanoutPublisher; the broker puts a copy into every queue bound to a
\* fanout exchange of that name.
fanout_cast(topic, msg) ==
    /\ Len(fanned) < MaxFanouts
    /\ WithConnectionContext
    /\ LET envelope == _pack_context(msg, Context) IN
          fanoutQ' = [n \in DOMAIN fanoutQ |->
                        IF fanoutQ[n].exchange = FanoutPublisherExchange(topic)
                        THEN [fanoutQ[n] EXCEPT !.messages = Append(@, envelope)]
                        ELSE fanoutQ[n]]
    /\ fanned' = Append(fanned, [topic |-> topic, msg |-> msg])
    /\ since' = [s \in Servers |->
                    IF consumer[s].topic = topic THEN Append(since[s], msg)
                    ELSE since[s]]
    /\ UNCHANGED <<ctxVars, oneVars, rpcVars, consumer, uuids, invoked, packing, endpoint>>

\* The consumer of server s is given the oldest message of its queue:
\* ProxyCallback.__call__ unpacks the context and, the message naming a
\* method, has the proxy called with it; the message is acked.
FanoutDeliver(s) ==
    /\ consumer[s] # NoConsumer
    /\ fanoutQ[consumer[s].queue].messages # <<>>
    /\ LET un == _unpack_context(Head(fanoutQ[consumer[s].queue].messages))
           method == DictGet(un.msg, "method", None)
       IN  /\ fanoutQ' = [fanoutQ EXCEPT ![consumer[s].queue].messages = Tail(@)]
           /\ invoked' = [invoked EXCEPT ![s] =
                             IF Not(method) THEN @ ELSE Append(@, un.msg)]
    /\ UNCHANGED <<poolVars, conns, ctxVars, oneVars, rpcVars, consumer, uuids,
                   fanned, since, packing, endpoint>>

NextFanout ==
    \/ \E s \in Servers, topic \in Topics : create_consumer(s, topic)
    \/ \E topic \in Topics, msg \in FanoutBodies : fanout_cast(topic, msg)
    \/ \E s \in Servers : FanoutDeliver(s)

SpecFanout == Init /\ [][NextFanout]_vars

\* The msgs of the envelopes waiting in the queue of server s, oldest first.
Waiting(s) ==
    [i \in 1 .. Len(fanoutQ[consumer[s].queue].messages) |->
        _unpack_context(fanoutQ[consumer[s].queue].messages[i]).msg]

\* C19: the servers with a fanout consumer have queues of different names,
\* each bound to the exchange <topic>_fanout of its topic; and for each of
\* them, the msgs fanout-cast on its topic since it bound are those its
\* proxy was called with followed by those still waiting in its queue, each
\* once and in order: none is lost, doubled, or taken by another server.
C19_FanoutReachesEveryConsumerOnce ==
    /\ \A s, t \in Servers :
          (s # t /\ consumer[s] # NoConsumer /\ consumer[t] # NoConsumer)
              => consumer[s].queue # consumer[t].queue
    /\ \A s \in Servers :
          consumer[s] # NoConsumer =>
              /\ fanoutQ[consumer[s].queue].exchange = consumer[s].topic \o "_fanout"
              /\ invoked[s] \o Waiting(s) = since[s]

\* C19 witness: two servers listen on one topic, and the proxy of each was
\* called with the one msg that was fanout-cast on it.
C19_Witness ==
    \E s, t \in Servers :
        /\ s # t
        /\ consumer[s] # NoConsumer
        /\ consumer[s].topic = consumer[t].topic
        /\ Len(fanned) = 1
        /\ fanned[1].topic = consumer[s].topic
        /\ invoked[s] = <<fanned[1].msg>>
        /\ invoked[t] = <<fanned[1].msg>>

(* ----------------- SpecPack: _pack_context, _unpack_context ----------- *)

\* The values of context fields: numbers, as user ids are, and as the
\* model's msg ids are.
FieldValues == {101, 102}

\* context.to_dict() of the contexts of SpecPack: every mapping of some of
\* Fields to FieldValues.
Contexts == UNION {[S -> FieldValues] : S \in SUBSET Fields}

\* The msgs of SpecPack as the verbs give them to _pack_context: cast as
\* the caller made them, multicall with a _msg_id added.
PackBodies ==
    LET plain == {[method |-> "echo", args |-> [value |-> "a"]],
                  [method |-> "boom", args |-> [value |-> None]],
                  [args |-> [value |-> None]]}
    IN  plain \cup {DictUpdate(msg, "_msg_id" :> 1) : msg \in plain}

\* A context and a msg are about to be packed.
InitPack ==
    /\ InitLayers
    /\ packing \in {[pc |-> "input", context |-> context, msg |-> msg] :
                       context \in Contexts, msg \in PackBodies}
    /\ endpoint = NoEndpoint

\* _pack_context(msg, context) on the client.
Pack ==
    /\ packing.pc = "input"
    /\ packing' = [pc |-> "packed",
                   context |-> packing.context,
                   msg |-> packing.msg,
                   envelope |-> _pack_context(packing.msg, packing.context)]
    /\ UNCHANGED <<poolVars, conns, ctxVars, oneVars, rpcVars, fanVars, endpoint>>

\* _unpack_context(msg) on the server: the context_dict the context is made
\* from, and what is left of the msg.
Unpack ==
    /\ packing.pc = "packed"
    /\ packing' = [pc |-> "unpacked",
                   context |-> packing.context,
                   msg |-> packing.msg,
                   ctxt |-> _unpack_context(packing.envelope).ctxt,
                   rest |-> _unpack_context(packing.envelope).msg]
    /\ UNCHANGED <<poolVars, conns, ctxVars, oneVars, rpcVars, fanVars, endpoint>>

NextPack == Pack \/ Unpack

SpecPack == InitPack /\ [][NextPack]_vars

\* C20: the context unpacked from a packed msg has every field of the
\* context that was packed, with its value, and no other field than msg_id;
\* and what is left of the msg has no _context_<name> key and no _msg_id.
C20_UnpackPackRoundTrip ==
    packing.pc = "unpacked" =>
        /\ \A k \in DOMAIN packing.context :
              k \in DOMAIN packing.ctxt /\ packing.ctxt[k] = packing.context[k]
        /\ DOMAIN packing.ctxt \subseteq DOMAIN packing.context \cup {"msg_id"}
        /\ DOMAIN packing.rest \cap (ContextKeys \cup {"_msg_id"}) = {}

\* ---------------------------------------------------------------------
\* SpecEndpoint: one consumer or publisher of any kind, constructed with
\* any option overrides on channel 1 and rebound to later channels.

\* The options the queue and publisher classes give defaults for.
Options == {"durable", "auto_delete", "exclusive"}

\* The keyword arguments a caller may pass: any of the options, any value.
Kwargs == UNION {[given -> BOOLEAN] : given \in SUBSET Options}

\* FLAGS.control_exchange.
control_exchange == "nova"

\* options.update(kwargs), ignoring every key (mutation of options_update).
options_keep_defaults(options, kwargs) == options

\* options.update(kwargs): a key of kwargs replaces the default.
options_update(options, kwargs) ==
    [o \in Options |-> IF o \in DOMAIN kwargs THEN kwargs[o] ELSE options[o]]

\* kombu.entity.Exchange(name=..., type=..., durable=..., auto_delete=...).
Exchange(name, type, options) ==
    [name |-> name, type |-> type,
     durable |-> options["durable"], auto_delete |-> options["auto_delete"]]

\* QueueBase.reconnect(channel): the channel is stored and the queue is made
\* again from the stored kwargs.
QueueBase_reconnect(q, channel) ==
    LET kwargs == [q.kwargs EXCEPT !.channel = channel]
    IN  [q EXCEPT !.channel = channel, !.kwargs = kwargs, !.queue = kwargs]

\* QueueBase.__init__(channel, callback, tag, **kwargs).
QueueBase___init__(channel, name, exchange, routing_key, options) ==
    QueueBase_reconnect(
        [role |-> "consumer", channel |-> 0, queue |-> <<>>,
         kwargs |-> [name |-> name, exchange |-> exchange,
                     routing_key |-> routing_key,
                     durable |-> options["durable"],
                     auto_delete |-> options["auto_delete"],
                     exclusive |-> options["exclusive"],
                     channel |-> 0]],
        channel)

\* DirectQueue(channel, msg_id, callback, tag, **kwargs).
DirectQueue(channel, msg_id, kwargs) ==
    LET options == options_update([durable |-> FALSE, auto_delete |-> TRUE,
                                   exclusive |-> TRUE], kwargs)
    IN  QueueBase___init__(channel, msg_id, Exchange(msg_id, "direct", options),
                           msg_id, options)

\* TopicQueue(channel, topic, callback, tag, **kwargs), with the value of
\* FLAGS.rabbit_durable_queues.
TopicQueue(channel, topic, kwargs, rabbit_durable_queues) ==
    LET options == options_update([durable |-> rabbit_durable_queues,
                                   auto_delete |-> FALSE,
                                   exclusive |-> FALSE], kwargs)
    IN  QueueBase___init__(channel, topic,
                           Exchange(control_exchange, "topic", options),
                           topic, options)

\* FanoutQueue(channel, topic, callback, tag, **kwargs), with the uuid4 hex
\* drawn for the queue name.
FanoutQueue(channel, topic, kwargs, unique) ==
    LET options == options_update([durable |-> FALSE, auto_delete |-> TRUE,
                                   exclusive |-> TRUE], kwargs)
    IN  QueueBase___init__(channel, topic \o "_fanout_" \o unique,
                           Exchange(topic \o "_fanout", "fanout", options),
                           topic, options)

\* Publisher.reconnect(channel): the exchange is made again from the stored
\* name and kwargs, the producer from the exchange, the channel and the
\* stored routing key.
Publisher_reconnect(p, channel) ==
    LET exchange == Exchange(p.exchange_name, p.kwargs.type, p.kwargs)
    IN  [p EXCEPT !.exchange = exchange,
                  !.producer = [exchange |-> exchange, channel |-> channel,
                                routing_key |-> p.routing_key]]

\* Publisher.__init__(channel, exchange_name, routing_key, **kwargs).
Publisher(channel, exchange_name, routing_key, type, options) ==
    Publisher_reconnect(
        [role |-> "publisher", exchange_name |-> exchange_name,
         routing_key |-> routing_key,
         kwargs |-> [type |-> type, durable |-> options["durable"],
                     auto_delete |-> options["auto_delete"],
                     exclusive |-> options["exclusive"]],
         exchange |-> <<>>, producer |-> <<>>],
        channel)

\* DirectPublisher(channel, msg_id, **kwargs).
DirectPublisher(channel, msg_id, kwargs) ==
    Publisher(channel, msg_id, msg_id, "direct",
              options_update([durable |-> FALSE, auto_delete |-> TRUE,
                              exclusive |-> TRUE], kwargs))

\* TopicPublisher(channel, topic, **kwargs).
TopicPublisher(channel, topic, kwargs, rabbit_durable_queues) ==
    Publisher(channel, control_exchange, topic, "topic",
              options_update([durable |-> rabbit_durable_queues,
                              auto_delete |-> FALSE, exclusive |-> FALSE],
                             kwargs))

\* FanoutPublisher(channel, topic, **kwargs): the routing key is None.
FanoutPublisher(channel, topic, kwargs) ==
    Publisher(channel, topic \o "_fanout", "None", "fanout",
              options_update([durable |-> FALSE, auto_delete |-> TRUE,
                              exclusive |-> TRUE], kwargs))

\* The names a caller passes: a msg_id for direct, a topic otherwise.
EndpointKinds == {"direct", "topic", "fanout"}
EndpointNames == {"T", "U"}

\* The consumer or publisher class of a kind, called.
Construct(role, kind, name, kwargs, rabbit_durable_queues) ==
    IF role = "consumer"
    THEN CASE kind = "direct" -> DirectQueue(1, name, kwargs)
           [] kind = "topic"  -> TopicQueue(1, name, kwargs, rabbit_durable_queues)
           [] kind = "fanout" -> FanoutQueue(1, name, kwargs, Uuid4Hex(1))
    ELSE CASE kind = "direct" -> DirectPublisher(1, name, kwargs)
           [] kind = "topic"  -> TopicPublisher(1, name, kwargs, rabbit_durable_queues)
           [] kind = "fanout" -> FanoutPublisher(1, name, kwargs)

\* What the broker is told about an endpoint: read from the queue a consumer
\* declares, from the exchange and producer a publisher publishes with (a
\* publisher has no queue).
Declared(e) ==
    IF e.role = "consumer"
    THEN [exchange_name |-> e.queue.exchange.name,
          exchange_type |-> e.queue.exchange.type,
          queue_name    |-> e.queue.name,
          routing_key   |-> e.queue.routing_key,
          durable       |-> e.queue.durable /\ e.queue.exchange.durable,
          durable_any   |-> e.queue.durable \/ e.queue.exchange.durable,
          auto_delete   |-> e.queue.auto_delete /\ e.queue.exchange.auto_delete,
          auto_delete_any |-> e.queue.auto_delete \/ e.queue.exchange.auto_delete,
          exclusive     |-> e.queue.exclusive]
    ELSE [exchange_name |-> e.producer.exchange.name,
          exchange_type |-> e.producer.exchange.type,
          queue_name    |-> "None",
          routing_key   |-> e.producer.routing_key,
          durable       |-> e.producer.exchange.durable,
          durable_any   |-> e.producer.exchange.durable,
          auto_delete   |-> e.producer.exchange.auto_delete,
          auto_delete_any |-> e.producer.exchange.auto_delete,
          exclusive     |-> e.kwargs.exclusive]

\* The channel an endpoint is on.
ChannelOf(e) == IF e.role = "consumer" THEN e.queue.channel ELSE e.producer.channel

InitEndpoint ==
    /\ InitLayers
    /\ packing = NoPacking
    /\ endpoint \in
         {[role |-> role, kind |-> kind, name |-> name, kwargs |-> kwargs,
           rabbit_durable_queues |-> flag,
           made |-> Declared(Construct(role, kind, name, kwargs, flag)),
           now  |-> Construct(role, kind, name, kwargs, flag)] :
            role \in {"consumer", "publisher"}, kind \in EndpointKinds,
            name \in EndpointNames, kwargs \in Kwargs, flag \in BOOLEAN}

\* reconnect(channel) of the endpoint, as Connection.reconnect and
\* publisher_send call it with the next channel.
Rebind ==
    /\ ChannelOf(endpoint.now) < MaxChannels
    /\ endpoint' = [endpoint EXCEPT !.now =
                      IF endpoint.role = "consumer"
                      THEN QueueBase_reconnect(@, ChannelOf(@) + 1)
                      ELSE Publisher_reconnect(@, ChannelOf(@) + 1)]
    /\ UNCHANGED <<poolVars, conns, ctxVars, oneVars, rpcVars, fanVars, packing>>

NextEndpoint == Rebind

SpecEndpoint == InitEndpoint /\ [][NextEndpoint]_vars

\* The value of an option: the one passed, else the default of the kind.
Overridden(o, default) ==
    IF o \in DOMAIN endpoint.kwargs THEN endpoint.kwargs[o] ELSE default

\* C26: after construction and after any number of rebinds, what an endpoint
\* declares (exchange name and kind, queue name, routing key, durable,
\* auto_delete, exclusive) is what it declared at construction, and that is
\* the default of its kind unless an option overrides it: direct is
\* non-durable, auto-delete, exclusive with exchange = routing key = msg_id;
\* topic has the configured durability, is neither auto-delete nor
\* exclusive, on the control exchange with routing key = topic; fanout is
\* non-durable, auto-delete, exclusive on the exchange <topic>_fanout.
C26_RebindKeepsDeclaration ==
    LET d == Declared(endpoint.now)
        direct == endpoint.kind = "direct"
        topic  == endpoint.kind = "topic"
    IN  endpoint.role # "none" =>
          /\ d = endpoint.made
          /\ d.exchange_type = endpoint.kind
          /\ d.exchange_name = (CASE direct -> endpoint.name
                                  [] topic  -> "nova"
                                  [] OTHER  -> endpoint.name \o "_fanout")
          /\ (direct \/ topic) => d.routing_key = endpoint.name
          /\ d.durable = Overridden("durable",
                                    topic /\ endpoint.rabbit_durable_queues)
          /\ d.durable_any = d.durable
          /\ d.auto_delete = Overridden("auto_delete", ~topic)
          /\ d.auto_delete_any = d.auto_delete
          /\ d.exclusive = Overridden("exclusive", ~topic)

\* An endpoint rebound twice that was made with an override of a default.
C26_Witness ==
    /\ endpoint.role # "none"
    /\ ChannelOf(endpoint.now) = 3
    /\ "durable" \in DOMAIN endpoint.kwargs
    /\ endpoint.kwargs["durable"] # (endpoint.kind = "topic" /\ endpoint.rabbit_durable_queues)

====
